---- MODULE Spec2Model ----
(***************************************************************************)
(* Model of Libraries/Renderer/src/renderers/native/findNodeHandle.js.     *)
(*                                                                         *)
(* The module state is the two injected strategy slots; the environment    *)
(* the function reads is ReactCurrentOwner.current and the                 *)
(* _warnedAboutRefsInRender flags of the owner records.  One action per    *)
(* exported operation: findNodeHandle, injection.injectFindNode and        *)
(* injection.injectFindRootNodeID, plus the reconciler changing the        *)
(* current owner.  The variables last, warnings, latestFindNode and        *)
(* latestFindRootNodeID are history variables that only observe; last      *)
(* describes the latest operation when it was a findNodeHandle call.       *)
(***************************************************************************)
EXTENDS Integers, Sequences, FiniteSets

VARIABLES
    dev,                      \* the __DEV__ build flag
    ReactCurrentOwner,        \* ReactCurrentOwner.current
    warnedAboutRefsInRender,  \* object id -> its _warnedAboutRefsInRender flag
    injectedFindNode,         \* slot, 0 = undefined (nothing injected yet)
    injectedFindRootNodeID,   \* slot, 0 = undefined (nothing injected yet)
    last,                     \* history: the findNodeHandle call just made
    warnings,                 \* history: warnings emitted, per current owner
    latestFindNode,           \* history: argument of the latest injectFindNode
    latestFindRootNodeID      \* history: argument of the latest injectFindRootNodeID

vars == <<dev, ReactCurrentOwner, warnedAboutRefsInRender, injectedFindNode,
          injectedFindRootNodeID, last, warnings, latestFindNode,
          latestFindRootNodeID>>

----------------------------------------------------------------------------
(* Bounds *)

NumStrategies == 2

NumInstances == 2

MaxWarnings == 2

----------------------------------------------------------------------------
(* JavaScript values.  Every value is a record of one shape:               *)
(*   kind    the type tag                                                  *)
(*   n       the number, the string's identity (0 = ""), the boolean       *)
(*   key     the one own key of interest an object or function carries     *)
(*   render  what its 'render' property is                                 *)
(*   inst    what ReactInstanceMap.get yields for it (0 = undefined)       *)

Prim(k, n) == [kind |-> k, n |-> n, key |-> "none", render |-> "absent", inst |-> 0]

Undefined == Prim("undefined", 0)

Null == Prim("null", 0)

Num(n) == Prim("number", n)

Str(n) == Prim("string", n)

Bool(b) == Prim("boolean", IF b THEN 1 ELSE 0)

\* the internal instance record number i of the reconciler
Instance(i) == Prim("object", i)

Keys == {"none", "_rootNodeID", "_nativeTag"}

Renders == {"absent", "function", "other"}

Objects ==
    [kind : {"object"}, n : {0}, key : Keys, render : Renders, inst : 0..NumInstances]

Functions ==
    [kind : {"function"}, n : {0}, key : {"none", "_nativeTag"},
     render : {"absent", "function"}, inst : 0..NumInstances]

Primitives ==
    {Undefined, Null, Num(-1), Num(0), Num(7), Str(0), Str(1), Bool(TRUE)}

Arguments == Primitives \cup Objects \cup Functions

\* typeof x
Typeof(x) == IF x.kind = "null" THEN "object" ELSE x.kind

\* ToBoolean(x), as used by if (x)
Truthy(x) ==
    CASE x.kind \in {"undefined", "null"} -> FALSE
      [] x.kind \in {"number", "string", "boolean"} -> x.n # 0
      [] OTHER -> TRUE

\* key in x
HasKey(x, k) == x.key = k

----------------------------------------------------------------------------
(* Owner records: S1 is a stack instance (no numeric tag); F1, F2 and F3   *)
(* are fibers (typeof owner.tag === 'number'), F1 and F2 the two fibers of *)
(* one component and so sharing the stateNode N1.                          *)
(* A fiber owner carries an object as stateNode: the code dereferences     *)
(* owner.stateNode unguarded, so owners without one are outside the model. *)

NullOwner == [id |-> "null", tag |-> "undefined", stateNode |-> "none"]

Owners ==
    { [id |-> "S1", tag |-> "undefined", stateNode |-> "none"],
      [id |-> "F1", tag |-> "number", stateNode |-> "N1"],
      [id |-> "F2", tag |-> "number", stateNode |-> "N1"],
      [id |-> "F3", tag |-> "number", stateNode |-> "N2"] }

OwnerIds == {o.id : o \in Owners}

ObjectIds == OwnerIds \cup {"N1", "N2"}

----------------------------------------------------------------------------
(* The injected strategies.  They live in the host renderer; strategy s is *)
(* a fixed function of its argument whose results cover truthy and falsy   *)
(* values of several types.                                                *)

Strategies == 1..NumStrategies

StrategyResults ==
    <<Undefined, Num(7), Null, Str(1), Num(0), Num(-2), Str(0), Bool(TRUE)>>

KeyIndex(k) == CASE k = "none" -> 0 [] k = "_rootNodeID" -> 1 [] OTHER -> 2

RenderIndex(r) == CASE r = "absent" -> 0 [] r = "function" -> 1 [] OTHER -> 2

\* findNode(internalInstance) of strategy s
FindNodeImpl(s, internalInstance) ==
    StrategyResults[((3 * internalInstance.n + s) % Len(StrategyResults)) + 1]

\* findRootNodeID(component) of strategy s
FindRootNodeIDImpl(s, component) ==
    StrategyResults[((2 * (KeyIndex(component.key) + RenderIndex(component.render)
                           + component.n) + s) % Len(StrategyResults)) + 1]

----------------------------------------------------------------------------
(* Outcomes of a call and the calls it makes to its collaborators.         *)

Return(v) == [kind |-> "return", value |-> v, msg |-> ""]

Throw(k, m) == [kind |-> k, value |-> Undefined, msg |-> m]

NoCall == [kind |-> "none", value |-> Undefined, msg |-> ""]

MsgNotComponent == "findNodeHandle(...): Argument is not a component"

MsgUnmounted ==
    "findNodeHandle(...): Unable to find node handle for unmounted component."

MsgNotAFunction == "injected strategy is not a function"

Call(slot, f, x) == [slot |-> slot, fn |-> f, arg |-> x]

\* ReactInstanceMap.get(component): the internal instance kept on the key
ReactInstanceMapGet(component) ==
    IF component.inst = 0 THEN Undefined ELSE Instance(component.inst)

\* faulty variant of IsComponentShaped: the typeof check on the native shape
\* is dropped
IsComponentShapedAnyType(component) ==
    \/ HasKey(component, "_rootNodeID") \/ HasKey(component, "_nativeTag")
    \/ component.render = "function"

\* the condition of the first invariant(...)
IsComponentShaped(component) ==
    \/ /\ Typeof(component) = "object"
       /\ (HasKey(component, "_rootNodeID") \/ HasKey(component, "_nativeTag"))
    \/ component.render = "function"

\* the two invariant(...) calls of the failure branch
FailureBranch(component) ==
    IF ~IsComponentShaped(component)
    THEN Throw("invariant", MsgNotComponent)
    ELSE Throw("invariant", MsgUnmounted)

\* faulty variant of FindNodeBranch: a falsy result of findNode is treated as
\* not found, as the other branch does
FindNodeBranchChecked(internalInstance, findNode) ==
    IF findNode = 0
    THEN [outcome |-> Throw("TypeError", MsgNotAFunction), calls |-> <<>>]
    ELSE LET node == FindNodeImpl(findNode, internalInstance)
         IN  [outcome |-> IF Truthy(node) THEN Return(node)
                          ELSE Throw("invariant", MsgUnmounted),
              calls |-> <<Call("findNode", findNode, internalInstance)>>]

\* the branch taken when the instance map has an internal instance
FindNodeBranch(internalInstance, findNode) ==
    IF findNode = 0
    THEN [outcome |-> Throw("TypeError", MsgNotAFunction), calls |-> <<>>]
    ELSE [outcome |-> Return(FindNodeImpl(findNode, internalInstance)),
          calls |-> <<Call("findNode", findNode, internalInstance)>>]

\* faulty variant of FindRootNodeIDBranch: the strategy is handed the (absent)
\* internal instance instead of the component
FindRootNodeIDBranchPassesInstance(component, findRootNodeID) ==
    IF findRootNodeID = 0
    THEN [outcome |-> Throw("TypeError", MsgNotAFunction), calls |-> <<>>]
    ELSE LET internalInstance == ReactInstanceMapGet(component)
             rootNodeID == FindRootNodeIDImpl(findRootNodeID, internalInstance)
         IN  [outcome |-> IF Truthy(rootNodeID) THEN Return(rootNodeID)
                          ELSE FailureBranch(component),
              calls |-> <<Call("findRootNodeID", findRootNodeID, internalInstance)>>]

\* faulty variant of FindRootNodeIDBranch: the result is tested with != null
\* instead of for truthiness
FindRootNodeIDBranchNullCheck(component, findRootNodeID) ==
    IF findRootNodeID = 0
    THEN [outcome |-> Throw("TypeError", MsgNotAFunction), calls |-> <<>>]
    ELSE LET rootNodeID == FindRootNodeIDImpl(findRootNodeID, component)
         IN  [outcome |-> IF rootNodeID.kind \notin {"null", "undefined"}
                          THEN Return(rootNodeID)
                          ELSE FailureBranch(component),
              calls |-> <<Call("findRootNodeID", findRootNodeID, component)>>]

\* the branch taken when the instance map has none
FindRootNodeIDBranch(component, findRootNodeID) ==
    IF findRootNodeID = 0
    THEN [outcome |-> Throw("TypeError", MsgNotAFunction), calls |-> <<>>]
    ELSE LET rootNodeID == FindRootNodeIDImpl(findRootNodeID, component)
         IN  [outcome |-> IF Truthy(rootNodeID) THEN Return(rootNodeID)
                          ELSE FailureBranch(component),
              calls |-> <<Call("findRootNodeID", findRootNodeID, component)>>]

\* the lookup through the instance map and the strategies
Lookup(component, findNode, findRootNodeID) ==
    LET internalInstance == ReactInstanceMapGet(component)
        r == IF Truthy(internalInstance)
             THEN FindNodeBranch(internalInstance, findNode)
             ELSE FindRootNodeIDBranch(component, findRootNodeID)
    IN  [outcome |-> r.outcome, calls |-> r.calls, mapGets |-> 1]

\* faulty variant of Resolve: the first test is !componentOrHandle
ResolveFalsyIsNull(componentOrHandle, findNode, findRootNodeID) ==
    IF ~Truthy(componentOrHandle)
    THEN [outcome |-> Return(Null), calls |-> <<>>, mapGets |-> 0]
    ELSE IF Typeof(componentOrHandle) = "number"
    THEN [outcome |-> Return(componentOrHandle), calls |-> <<>>, mapGets |-> 0]
    ELSE Lookup(componentOrHandle, findNode, findRootNodeID)

\* faulty variant of Resolve: a null or undefined argument is handed back
ResolveNullishReturnsArg(componentOrHandle, findNode, findRootNodeID) ==
    IF componentOrHandle.kind \in {"null", "undefined"}
    THEN [outcome |-> Return(componentOrHandle), calls |-> <<>>, mapGets |-> 0]
    ELSE IF Typeof(componentOrHandle) = "number"
    THEN [outcome |-> Return(componentOrHandle), calls |-> <<>>, mapGets |-> 0]
    ELSE Lookup(componentOrHandle, findNode, findRootNodeID)

\* the body of findNodeHandle after the development block
Resolve(componentOrHandle, findNode, findRootNodeID) ==
    IF componentOrHandle.kind \in {"null", "undefined"}
    THEN [outcome |-> Return(Null), calls |-> <<>>, mapGets |-> 0]
    ELSE IF Typeof(componentOrHandle) = "number"
    THEN [outcome |-> Return(componentOrHandle), calls |-> <<>>, mapGets |-> 0]
    ELSE Lookup(componentOrHandle, findNode, findRootNodeID)

----------------------------------------------------------------------------
(* The development block.                                                  *)

\* typeof owner.tag === 'number'
IsFiber(owner) == owner.tag = "number"

\* the record the flag is read from
FlagReadFrom(owner) == IF IsFiber(owner) THEN owner.stateNode ELSE owner.id

\* faulty variant of FlagWrittenTo: the flag is always set on the owner itself
FlagWrittenToOwner(owner) == owner.id

\* the record the flag is written to
FlagWrittenTo(owner) == IF IsFiber(owner) THEN owner.stateNode ELSE owner.id

\* warning(condition, ...): the number of messages it emits
Warning(condition) == IF condition THEN 0 ELSE 1

\* if (__DEV__) { ... }: the flags afterwards and the warnings emitted
DevBlock(isDev, owner, warned) ==
    IF isDev /\ owner # NullOwner
    THEN [warned |-> [warned EXCEPT ![FlagWrittenTo(owner)] = TRUE],
          emitted |-> Warning(warned[FlagReadFrom(owner)])]
    ELSE [warned |-> warned, emitted |-> 0]

\* faulty variant of findNodeHandle: the input is validated before the
\* development block runs
findNodeHandleValidatesFirst(componentOrHandle, isDev, owner, warned, findNode, findRootNodeID) ==
    LET r == Resolve(componentOrHandle, findNode, findRootNodeID)
        d == IF componentOrHandle.kind \in {"null", "undefined", "number"}
                  \/ r.outcome.kind # "return"
             THEN [warned |-> warned, emitted |-> 0]
             ELSE DevBlock(isDev, owner, warned)
    IN  [warned |-> d.warned, emitted |-> d.emitted, outcome |-> r.outcome,
         calls |-> r.calls, mapGets |-> r.mapGets]

\* faulty variant of findNodeHandle: a call that warned returns null at once
findNodeHandleWarnedReturnsNull(componentOrHandle, isDev, owner, warned, findNode, findRootNodeID) ==
    LET d == DevBlock(isDev, owner, warned)
        r == IF d.emitted > 0
             THEN [outcome |-> Return(Null), calls |-> <<>>, mapGets |-> 0]
             ELSE Resolve(componentOrHandle, findNode, findRootNodeID)
    IN  [warned |-> d.warned, emitted |-> d.emitted, outcome |-> r.outcome,
         calls |-> r.calls, mapGets |-> r.mapGets]

\* findNodeHandle(componentOrHandle), reading the environment it is given
findNodeHandle(componentOrHandle, isDev, owner, warned, findNode, findRootNodeID) ==
    LET d == DevBlock(isDev, owner, warned)
        r == Resolve(componentOrHandle, findNode, findRootNodeID)
    IN  [warned |-> d.warned, emitted |-> d.emitted, outcome |-> r.outcome,
         calls |-> r.calls, mapGets |-> r.mapGets]

----------------------------------------------------------------------------
(* Actions *)

Min(a, b) == IF a < b THEN a ELSE b

\* the value of last when the latest operation was not a findNodeHandle call
NoLast ==
    [arg |-> Undefined, owner |-> NullOwner,
     warnedBefore |-> [i \in ObjectIds |-> FALSE],
     warnedAfter |-> [i \in ObjectIds |-> FALSE],
     findNodeBefore |-> 0, findRootNodeIDBefore |-> 0,
     findNodeAfter |-> 0, findRootNodeIDAfter |-> 0,
     latestFindNode |-> 0, latestFindRootNodeID |-> 0,
     outcome |-> NoCall, calls |-> <<>>, mapGets |-> 0, emitted |-> 0]

Init ==
    /\ dev \in BOOLEAN
    /\ ReactCurrentOwner = NullOwner
    /\ warnedAboutRefsInRender = [i \in ObjectIds |-> FALSE]
    /\ injectedFindNode = 0
    /\ injectedFindRootNodeID = 0
    /\ last = NoLast
    /\ warnings = [i \in OwnerIds |-> 0]
    /\ latestFindNode = 0
    /\ latestFindRootNodeID = 0

\* a call findNodeHandle(componentOrHandle)
FindNodeHandleCall(componentOrHandle) ==
    LET r == findNodeHandle(componentOrHandle, dev, ReactCurrentOwner,
                            warnedAboutRefsInRender, injectedFindNode,
                            injectedFindRootNodeID)
    IN  /\ warnedAboutRefsInRender' = r.warned
        /\ UNCHANGED <<dev, ReactCurrentOwner, injectedFindNode,
                       injectedFindRootNodeID, latestFindNode, latestFindRootNodeID>>
        /\ warnings' =
              IF r.emitted = 0 THEN warnings
              ELSE [warnings EXCEPT ![ReactCurrentOwner.id] =
                                        Min(@ + r.emitted, MaxWarnings)]
        /\ last' = [arg |-> componentOrHandle, owner |-> ReactCurrentOwner,
                    warnedBefore |-> warnedAboutRefsInRender,
                    warnedAfter |-> warnedAboutRefsInRender',
                    findNodeBefore |-> injectedFindNode,
                    findRootNodeIDBefore |-> injectedFindRootNodeID,
                    findNodeAfter |-> injectedFindNode',
                    findRootNodeIDAfter |-> injectedFindRootNodeID',
                    latestFindNode |-> latestFindNode,
                    latestFindRootNodeID |-> latestFindRootNodeID,
                    outcome |-> r.outcome, calls |-> r.calls,
                    mapGets |-> r.mapGets, emitted |-> r.emitted]

\* findNodeHandle.injection.injectFindNode(findNode)
InjectFindNode(findNode) ==
    /\ injectedFindNode' = findNode
    /\ latestFindNode' = findNode
    /\ last' = NoLast
    /\ UNCHANGED <<dev, ReactCurrentOwner, warnedAboutRefsInRender,
                   injectedFindRootNodeID, warnings, latestFindRootNodeID>>

\* faulty variant of InjectFindRootNodeID: it assigns the findNode slot
InjectFindRootNodeIDWrongSlot(findRootNodeID) ==
    /\ injectedFindNode' = findRootNodeID
    /\ latestFindRootNodeID' = findRootNodeID
    /\ last' = NoLast
    /\ UNCHANGED <<dev, ReactCurrentOwner, warnedAboutRefsInRender,
                   injectedFindRootNodeID, warnings, latestFindNode>>

\* findNodeHandle.injection.injectFindRootNodeID(findRootNodeID)
InjectFindRootNodeID(findRootNodeID) ==
    /\ injectedFindRootNodeID' = findRootNodeID
    /\ latestFindRootNodeID' = findRootNodeID
    /\ last' = NoLast
    /\ UNCHANGED <<dev, ReactCurrentOwner, warnedAboutRefsInRender,
                   injectedFindNode, warnings, latestFindNode>>

\* the reconciler enters or leaves a render: ReactCurrentOwner.current = owner
SetCurrentOwner(owner) ==
    /\ owner # ReactCurrentOwner
    /\ ReactCurrentOwner' = owner
    /\ last' = NoLast
    /\ UNCHANGED <<dev, warnedAboutRefsInRender, injectedFindNode,
                   injectedFindRootNodeID, warnings, latestFindNode,
                   latestFindRootNodeID>>

Next ==
    \/ \E a \in Arguments : FindNodeHandleCall(a)
    \/ \E f \in Strategies : InjectFindNode(f)
    \/ \E f \in Strategies : InjectFindRootNodeID(f)
    \/ \E o \in Owners \cup {NullOwner} : SetCurrentOwner(o)

Spec == Init /\ [][Next]_vars

----------------------------------------------------------------------------
(* Vocabulary of the properties, stated on the observations only.          *)

\* the latest operation was a findNodeHandle call
Called == last.outcome.kind # "none"

\* the argument is null or undefined
Nullish(a) == a.kind \in {"null", "undefined"}

\* the argument is neither null/undefined nor a number
ComponentArg(a) == ~Nullish(a) /\ a.kind # "number"

\* the instance map holds a truthy internal instance for the argument
MapHas(a) == a.inst # 0

\* the record on which an owner's flag lives
RecordOf(o) == IF o.tag = "number" THEN o.stateNode ELSE o.id

\* the call went down the failure path: no internal instance, falsy root node ID
OnFailurePath ==
    /\ Called
    /\ ComponentArg(last.arg)
    /\ ~MapHas(last.arg)
    /\ last.latestFindRootNodeID # 0
    /\ ~Truthy(FindRootNodeIDImpl(last.latestFindRootNodeID, last.arg))

----------------------------------------------------------------------------
\* C1: for a component argument with a truthy internal instance,
\* findNodeHandle calls the injected findNode strategy exactly once with that
\* instance, returns exactly what it returns (falsy values included) and does
\* not call the findRootNodeID strategy.
C1_FindNodeDelegation ==
    (Called /\ ComponentArg(last.arg) /\ MapHas(last.arg) /\ last.latestFindNode # 0)
    => /\ last.calls =
            <<Call("findNode", last.latestFindNode, Instance(last.arg.inst))>>
       /\ last.outcome =
            Return(FindNodeImpl(last.latestFindNode, Instance(last.arg.inst)))

\* a call that delegated to findNode and returned its falsy result
C1_Witness ==
    /\ Called /\ ComponentArg(last.arg) /\ MapHas(last.arg)
    /\ last.latestFindNode # 0
    /\ last.outcome.kind = "return"
    /\ ~Truthy(last.outcome.value)
    /\ Len(last.calls) = 1

\* C2: for a component argument without an internal instance, findNodeHandle
\* calls the injected findRootNodeID strategy exactly once with the component
\* itself, never calls findNode, and returns a truthy result unchanged.
C2_FindRootNodeIDDelegation ==
    (Called /\ ComponentArg(last.arg) /\ ~MapHas(last.arg)
        /\ last.latestFindRootNodeID # 0)
    => /\ last.calls =
            <<Call("findRootNodeID", last.latestFindRootNodeID, last.arg)>>
       /\ LET rootNodeID == FindRootNodeIDImpl(last.latestFindRootNodeID, last.arg)
          IN  Truthy(rootNodeID) => last.outcome = Return(rootNodeID)

\* a call that delegated to findRootNodeID and returned its truthy result
C2_Witness ==
    /\ Called /\ ComponentArg(last.arg) /\ ~MapHas(last.arg)
    /\ last.latestFindRootNodeID # 0
    /\ last.outcome.kind = "return"
    /\ Truthy(last.outcome.value)
    /\ Len(last.calls) = 1

\* C3: when there is no internal instance and the findRootNodeID strategy
\* returns a falsy value (undefined, null, 0, ""), findNodeHandle raises an
\* invariant failure and never returns; 0 counts as not found.
C3_FalsyRootNodeIDFails ==
    OnFailurePath => last.outcome.kind = "invariant"

\* a call whose root node ID was 0 and that raised the invariant failure
C3_Witness ==
    /\ OnFailurePath
    /\ FindRootNodeIDImpl(last.latestFindRootNodeID, last.arg) = Num(0)
    /\ last.outcome.kind = "invariant"

\* C4: a number argument (0 and negatives included) is returned unchanged,
\* without consulting the instance map or either strategy, also when nothing
\* was ever injected.
C4_NumberPassThrough ==
    (Called /\ last.arg.kind = "number")
    => /\ last.outcome = Return(last.arg)
       /\ last.calls = <<>>
       /\ last.mapGets = 0

\* the handle 0 returned while both slots were still empty
C4_Witness ==
    /\ Called /\ last.arg = Num(0)
    /\ last.latestFindNode = 0 /\ last.latestFindRootNodeID = 0
    /\ last.outcome = Return(Num(0))

\* C5: a null or undefined argument yields null (not undefined, not an
\* error), without consulting the instance map or either strategy, also when
\* nothing was ever injected.
C5_NullishYieldsNull ==
    (Called /\ Nullish(last.arg))
    => /\ last.outcome = Return(Null)
       /\ last.calls = <<>>
       /\ last.mapGets = 0

\* undefined passed while both slots were still empty, null returned
C5_Witness ==
    /\ Called /\ last.arg = Undefined
    /\ last.latestFindNode = 0 /\ last.latestFindRootNodeID = 0
    /\ last.outcome = Return(Null)

\* C6: each slot holds the function most recently injected into it, every
\* strategy call of findNodeHandle uses the most recently injected function of
\* its slot, injecting into one slot leaves the other unchanged, and
\* findNodeHandle changes neither slot.
C6_LateBoundPerSlot ==
    /\ injectedFindNode = latestFindNode
    /\ injectedFindRootNodeID = latestFindRootNodeID
    /\ Called =>
         /\ \A i \in 1..Len(last.calls) :
               last.calls[i].fn = IF last.calls[i].slot = "findNode"
                                  THEN last.latestFindNode
                                  ELSE last.latestFindRootNodeID
         /\ last.findNodeAfter = last.findNodeBefore
         /\ last.findRootNodeIDAfter = last.findRootNodeIDBefore

\* a call served by the findNode slot while the two slots hold different
\* strategies, the findNode one not being the first
C6_Witness ==
    /\ Called
    /\ Len(last.calls) = 1
    /\ last.calls[1].slot = "findNode"
    /\ last.calls[1].fn = 2
    /\ last.latestFindRootNodeID = 1

\* C7: on the failure path the failure is 'Argument is not a component'
\* exactly when the argument is neither an object with a '_rootNodeID' or
\* '_nativeTag' key nor a value whose 'render' is a function; otherwise it is
\* 'Unable to find node handle for unmounted component.'.
C7_FailureMessage ==
    OnFailurePath =>
        LET native == last.arg.kind = "object"
                        /\ last.arg.key \in {"_rootNodeID", "_nativeTag"}
            composite == last.arg.render = "function"
        IN  /\ last.outcome.kind = "invariant"
            /\ last.outcome.msg =
                 IF ~native /\ ~composite THEN MsgNotComponent ELSE MsgUnmounted

\* an unmounted native-shaped component ('_nativeTag' key, no render)
C7_Witness ==
    /\ OnFailurePath
    /\ last.arg.kind = "object" /\ last.arg.key = "_nativeTag"
    /\ last.arg.render = "absent"
    /\ last.outcome.msg = MsgUnmounted

====
